---- MODULE Spec2Model ----
(***************************************************************************)
(* Model of Python/microtaxest/txfunc.py: the per-year age sweep that fits *)
(* tax-function parameters, fills ages without sufficient data, and the    *)
(* age-bucket aggregation that follows the sweep.                          *)
(*                                                                         *)
(* Floating-point numbers are modelled as exact rationals <<num, den>>     *)
(* with den > 0 in lowest terms; np.nan is <<0, 0>> and propagates through *)
(* every arithmetic operation as it does in numpy.  The body of the year   *)
(* loop is modelled for one arbitrary year t of years_list; the slices of  *)
(* the other years keep the values they were initialised with.  The        *)
(* optimizer is modelled by its result: each fit returns one of a small    *)
(* set of OptimizeResult values, whose vector is rescaled by the column    *)
(* means of the design matrix before it is stored.  Spec is the sweep,     *)
(* the aggregation and the save; SpecFit evaluates the objective's         *)
(* prediction and the functional form on small record sets.                *)
(***************************************************************************)
EXTENDS Integers, Sequences, FiniteSets, TLC

----------------------------------------------------------------------------
(* Program constants and model bounds *)

s_min == 21

s_max == 24

tpers == 2

numparams == 10

MinObs == 600

AgeCount == s_max - s_min + 1

AgeIdx == 0 .. (AgeCount - 1)

YearIdx == 0 .. (tpers - 1)

Ages == s_min .. s_max

Params == 1 .. numparams

----------------------------------------------------------------------------
(* Floating-point values as exact rationals, with NaN *)

NaN == <<0, 0>>

Zero == <<0, 1>>

One == <<1, 1>>

IsNaN(x) == x[2] = 0

Abs(n) == IF n < 0 THEN -n ELSE n

RECURSIVE GCD(_, _)
GCD(a, b) == IF b = 0 THEN a ELSE GCD(b, a % b)

Norm(n, d) ==
    IF d = 0 THEN NaN
    ELSE LET g == GCD(Abs(n), d)
         IN  <<n \div g, d \div g>>

Rat(n, d) == Norm(n, d)

(* The operands are in lowest terms, so a zero operand or two integers    *)
(* need no reduction; common factors are divided out before multiplying.  *)
RAdd(x, y) ==
    IF IsNaN(x) \/ IsNaN(y) THEN NaN
    ELSE IF x[1] = 0 THEN y
    ELSE IF y[1] = 0 THEN x
    ELSE IF x[2] = 1 /\ y[2] = 1 THEN <<x[1] + y[1], 1>>
    ELSE LET g == GCD(x[2], y[2])
         IN  Norm(x[1] * (y[2] \div g) + y[1] * (x[2] \div g),
                  (x[2] \div g) * y[2])

RSub(x, y) ==
    IF IsNaN(x) \/ IsNaN(y) THEN NaN
    ELSE IF y[1] = 0 THEN x
    ELSE IF x[2] = 1 /\ y[2] = 1 THEN <<x[1] - y[1], 1>>
    ELSE LET g == GCD(x[2], y[2])
         IN  Norm(x[1] * (y[2] \div g) - y[1] * (x[2] \div g),
                  (x[2] \div g) * y[2])

RMul(x, y) ==
    IF IsNaN(x) \/ IsNaN(y) THEN NaN
    ELSE IF x[1] = 0 \/ y[1] = 0 THEN Zero
    ELSE IF x[2] = 1 /\ y[2] = 1 THEN <<x[1] * y[1], 1>>
    ELSE LET g1 == GCD(Abs(x[1]), y[2])
             g2 == GCD(Abs(y[1]), x[2])
         IN  <<(x[1] \div g1) * (y[1] \div g2), (x[2] \div g2) * (y[2] \div g1)>>

(* Division by a value that is not zero *)
RDiv(x, y) ==
    IF IsNaN(x) \/ IsNaN(y) \/ y[1] = 0 THEN NaN
    ELSE IF y[1] > 0 THEN RMul(x, <<y[2], y[1]>>)
    ELSE RMul(x, <<- y[2], - y[1]>>)

(* A parameter vector: numparams values, operated on element by element *)
VecOf(seq) == [j \in Params |-> <<seq[j], 1>>]

ZeroVec == [j \in Params |-> Zero]

NaNVec == [j \in Params |-> NaN]

VAdd(v, w) == [j \in Params |-> RAdd(v[j], w[j])]

VSub(v, w) == [j \in Params |-> RSub(v[j], w[j])]

VScale(r, v) == [j \in Params |-> RMul(r, v[j])]

----------------------------------------------------------------------------
(* Inputs *)

(* Results the two optimizer runs of one age can return: the vector x and *)
(* the flag success of each OptimizeResult.  Both runs converge, or both  *)
(* stop without converging.                                               *)
FitResults ==
    { [etr  |-> [x |-> VecOf(<<2, 4, 6, 8, 10, 12, 5, -1, 7, 0>>),
                 success |-> TRUE],
       mtrx |-> [x |-> VecOf(<<1, 3, 5, 7, 9, 11, 6, 1, 4, -2>>),
                 success |-> TRUE]],
      [etr  |-> [x |-> VecOf(<<5, 1, 8, 2, 9, 3, 10, 2, 3, 1>>),
                 success |-> FALSE],
       mtrx |-> [x |-> VecOf(<<7, 7, 2, 6, 1, 4, 8, -3, 9, 3>>),
                 success |-> FALSE]] }

(* varmat_bar[:5] of the records of age a in year y: the means of the     *)
(* five income columns of the design matrix                               *)
ColumnMeans(y, a) == [i \in 1 .. 5 |-> <<1 + ((a + y + i) % 3), 1>>]

(* Number of records of one age after the outlier filter: just below and   *)
(* exactly at the threshold.                                               *)
ObsCounts == {MinObs - 1, MinObs}

(* Sum of the population weights of the records of each age in year y,    *)
(* and the total population of that year (which may count records outside *)
(* the sweep).  The years differ in their weights.                        *)
RECURSIVE SumTo(_, _)
SumTo(f, a) == IF a < s_min THEN 0 ELSE f[a] + SumTo(f, a - 1)

AgeWeights(y) ==
    IF y % 2 = 0
    THEN [a \in Ages |-> a - s_min + 1 + y]
    ELSE [a \in Ages |-> 3 * y]

TotalWeight(y) ==
    IF y % 2 = 0
    THEN SumTo(AgeWeights(y), s_max)
    ELSE SumTo(AgeWeights(y), s_max) + 8

(* Of the n records of age a in year y, the number whose labor income and *)
(* capital income both exceed 5: all of them for some ages, all but one   *)
(* for the others.                                                        *)
PositiveIncomeRows(y, a, n) ==
    IF n = 0 \/ (a + y) % 2 = 0 THEN n ELSE n - 1

(* (data['Adjusted Total income'] * data['Weights']).sum() of year y *)
WeightedIncome(y) == 1000 * (y + 2) + 1

----------------------------------------------------------------------------
VARIABLES
    pc,             \* "start", "ages", "swept", "aggregated", "saved", "error"
    S,              \* number of age buckets asked for
    t,              \* index t-beg_yr of the year being processed
    min_age, max_age,
    nobs,           \* df.shape[0] for every age of the year
    wsum,           \* df['Weights'].sum() for every age of the year
    s,              \* age being processed
    NoData_cnt,
    etrparam_arr, mtrxparam_arr,
    PopPct_age,
    TotPop_yr,
    etrparams, mtrxparams,  \* the fit of every age fitted so far this year
    Obs,            \* rows of df_trnc in the latest fit
    etrparams_til, mtrxparams_til,  \* the latest OptimizeResult of each target
    etrparam_arr_S, mtrxparam_arr_S,
    AvgInc,
    elapsed_time,
    dict_params,    \* the dictionary given to pickle.dump
    df_trnc,        \* rows (labor income, capital income) given to a fit
    wsumsq_params,  \* a parameter vector the optimizer tries
    txrates_est,    \* the rates wsumsq predicts for it, row by row
    etr_grid,       \* the rates gen_etr_grid gives for the rescaled vector
    mtrx_grid,      \* the rates gen_mtrx_grid_est gives for the same vector
    data,           \* the records of a year, before the outlier filter
    data_trnc,      \* the records of a year the outlier filter keeps
    bin_weights,    \* get_wealth_data: ability weights, in thousandths
    perc_array,     \* get_wealth_data: cumulated percents, minus one
    wealth_cols,    \* get_wealth_data: the columns of data2 each group averages
    wealth_data_array   \* get_wealth_data: the average of each group

vars == <<pc, S, etrparam_arr_S, mtrxparam_arr_S, t, min_age, max_age, nobs, wsum, s, NoData_cnt, etrparam_arr,
          mtrxparam_arr, PopPct_age, TotPop_yr, etrparams, mtrxparams,
          AvgInc, elapsed_time, dict_params, Obs, etrparams_til,
          mtrxparams_til, df_trnc, wsumsq_params, txrates_est, etr_grid,
          mtrx_grid, data, data_trnc, bin_weights, perc_array, wealth_cols,
          wealth_data_array>>

(* The variables of the sweep, the aggregation and the saving *)
sweepvars == <<pc, S, etrparam_arr_S, mtrxparam_arr_S, t, min_age, max_age,
               nobs, wsum, s, NoData_cnt, etrparam_arr, mtrxparam_arr,
               PopPct_age, TotPop_yr, etrparams, mtrxparams, AvgInc,
               elapsed_time, dict_params, Obs, etrparams_til, mtrxparams_til>>

(* The variables of the check of one objective evaluation *)
fitvars == <<df_trnc, wsumsq_params, txrates_est, etr_grid, mtrx_grid>>

(* The variables of the check of the outlier filter *)
filtervars == <<data, data_trnc>>

(* The variables of the check of get_wealth_data *)
wealthvars == <<bin_weights, perc_array, wealth_cols, wealth_data_array>>

(* The variables a step of the sweep never touches *)
checkvars == <<fitvars, filtervars, wealthvars>>

NoResult == [x |-> NaNVec, success |-> FALSE]

NoFit == [a \in Ages |-> NaNVec]

(* The state after the module-level initialisations *)
SweepInit ==
    /\ pc = "start"
    /\ S \in 1 .. AgeCount
    /\ etrparam_arr_S = << >>
    /\ mtrxparam_arr_S = << >>
    /\ t = 0
    /\ min_age = s_min
    /\ max_age = s_min
    /\ nobs = [a \in Ages |-> 0]
    /\ wsum = [a \in Ages |-> 0]
    /\ s = s_min
    /\ NoData_cnt = 0
    /\ etrparam_arr = [i \in AgeIdx |-> [y \in YearIdx |-> ZeroVec]]
    /\ mtrxparam_arr = [i \in AgeIdx |-> [y \in YearIdx |-> ZeroVec]]
    /\ PopPct_age = [i \in AgeIdx |-> [y \in YearIdx |-> Zero]]
    /\ TotPop_yr = [y \in YearIdx |-> 0]
    /\ etrparams = NoFit
    /\ mtrxparams = NoFit
    /\ AvgInc = [y \in YearIdx |-> Zero]
    /\ elapsed_time = 0
    /\ dict_params = << >>
    /\ Obs = 0
    /\ etrparams_til = NoResult
    /\ mtrxparams_til = NoResult

(* No fit is being evaluated *)
FitIdle ==
    /\ df_trnc = << >>
    /\ wsumsq_params = ZeroVec
    /\ txrates_est = << >>
    /\ etr_grid = << >>
    /\ mtrx_grid = << >>

(* No record-level table is held *)
FilterIdle ==
    /\ data = << >>
    /\ data_trnc = << >>

(* get_wealth_data has not been called *)
WealthIdle ==
    /\ bin_weights = << >>
    /\ perc_array = << >>
    /\ wealth_cols = << >>
    /\ wealth_data_array = << >>

Init ==
    /\ SweepInit
    /\ FitIdle
    /\ FilterIdle
    /\ WealthIdle

(* Start of one iteration of the year loop *)
LoadYear ==
    /\ pc = "start"
    /\ \E y \in YearIdx, lo \in Ages, hi \in Ages :
         /\ lo <= hi
         /\ t' = y
         /\ min_age' = lo
         /\ max_age' = hi
         /\ wsum' = AgeWeights(y)
         /\ TotPop_yr' = [TotPop_yr EXCEPT ![y] = TotalWeight(y)]
         /\ AvgInc' = [AvgInc EXCEPT
                          ![y] = Rat(WeightedIncome(y), TotalWeight(y))]
         /\ \E n \in [lo .. hi -> ObsCounts] :
              nobs' = [a \in Ages |-> IF a \in lo .. hi THEN n[a] ELSE 0]
         /\ s' = lo
    /\ NoData_cnt' = 0
    /\ pc' = "ages"
    /\ UNCHANGED <<etrparam_arr, mtrxparam_arr, PopPct_age, etrparams,
                   mtrxparams, S, etrparam_arr_S, mtrxparam_arr_S,
                   elapsed_time, dict_params, Obs, etrparams_til,
                   mtrxparams_til>>
    /\ UNCHANGED checkvars

----------------------------------------------------------------------------
(* Array helpers *)

(* A negative Python index counts from the end of the axis *)
Idx(i) == IF i < 0 THEN i + AgeCount ELSE i

(* arr[lo:hi, y, :] = rows, rows indexed from 0 *)
SetRows(arr, lo, hi, y, rows) ==
    [i \in AgeIdx |->
        IF lo <= i /\ i < hi THEN [arr[i] EXCEPT ![y] = rows[i - lo]]
        ELSE arr[i]]

(* np.tile(v.reshape((1, 10)), (n, 1)) *)
Tile(v, n) == [k \in 0 .. (n - 1) |-> v]

(* np.linspace(lo, hi, num) for integers lo, hi *)
Linspace(lo, hi, num) ==
    [k \in 0 .. (num - 1) |-> Rat(lo * (num - 1) + k * (hi - lo), num - 1)]

(* Variant: a block is assignable only to a slice of as many rows *)
Broadcastable_SameShape(n, m) == n = m

(* A block of n rows can be assigned to a slice of m rows when the shapes  *)
(* agree or the block has a single row (broadcast).                        *)
Broadcastable(n, m) == n = m \/ n = 1

(* The rows a broadcastable block of n rows gives to a slice of m rows *)
Broadcast(rows, n, m) ==
    [k \in 0 .. (m - 1) |-> IF n = 1 THEN rows[0] ELSE rows[k]]

(* Variant: the threshold test taken as "at most 600" *)
Insufficient_AtMost(n) == n <= MinObs

(* df.shape[0] < 600 *)
Insufficient(n) == n < MinObs

(* PopPct_age[s-s_min, t-beg_yr] = df['Weights'].sum() / TotPop_yr[t-beg_yr] *)
SetPopPct ==
    PopPct_age' =
        [PopPct_age EXCEPT ![s - s_min][t] = Rat(wsum[s], TotPop_yr[t])]

(* Variant: the loop does not move on to the next age *)
NextAge_Repeats ==
    IF s = max_age
    THEN pc' = "swept" /\ s' = s
    ELSE pc' = "ages" /\ s' = s

(* End of the body of the age loop *)
NextAge ==
    IF s = max_age
    THEN pc' = "swept" /\ s' = s
    ELSE pc' = "ages" /\ s' = s + 1

----------------------------------------------------------------------------
(* The three branches of the age loop *)

(* Variant: the sentinel written to the row of the age in every year *)
NoDataInterior_AllYears ==
    /\ pc = "ages"
    /\ Insufficient(nobs[s]) /\ s < max_age
    /\ SetPopPct
    /\ NoData_cnt' = NoData_cnt + 1
    /\ etrparam_arr' =
          [etrparam_arr EXCEPT ![s - 21] = [y \in YearIdx |-> NaNVec]]
    /\ mtrxparam_arr' =
          [mtrxparam_arr EXCEPT ![s - 21] = [y \in YearIdx |-> NaNVec]]
    /\ NextAge
    /\ UNCHANGED <<t, min_age, max_age, nobs, wsum, TotPop_yr, etrparams,
                   mtrxparams, Obs, etrparams_til, mtrxparams_til,
                   S, etrparam_arr_S, mtrxparam_arr_S,
                   AvgInc, elapsed_time, dict_params>>
    /\ UNCHANGED checkvars

(* df.shape[0] < 600 and s < max_age *)
NoDataInterior ==
    /\ pc = "ages"
    /\ Insufficient(nobs[s]) /\ s < max_age
    /\ SetPopPct
    /\ NoData_cnt' = NoData_cnt + 1
    /\ etrparam_arr' = [etrparam_arr EXCEPT ![s - 21][t] = NaNVec]
    /\ mtrxparam_arr' = [mtrxparam_arr EXCEPT ![s - 21][t] = NaNVec]
    /\ NextAge
    /\ UNCHANGED <<t, min_age, max_age, nobs, wsum, TotPop_yr, etrparams,
                   mtrxparams, Obs, etrparams_til, mtrxparams_til,
                   S, etrparam_arr_S, mtrxparam_arr_S,
                   AvgInc, elapsed_time, dict_params>>
    /\ UNCHANGED checkvars

(* Variant: lastp read from the slice of the first year *)
CarryForward_FirstYear(arr, age, cnt, y) ==
    LET lastp == arr[Idx(age - cnt - 21)][0]
    IN  SetRows(arr, age - cnt - 20, AgeCount, y,
                Broadcast(Tile(lastp, cnt), cnt, AgeCount))

(* Variant: lastp read from the first row of the slice it is written to *)
CarryForward_FromSlice(arr, age, cnt, y) ==
    LET lastp == arr[Idx(age - cnt - 20)][y]
    IN  SetRows(arr, age - cnt - 20, AgeCount, y,
                Broadcast(Tile(lastp, cnt), cnt, AgeCount))

(* arr[s-NoData_cnt-20:, t-beg_yr, :] = np.tile(lastp, (NoData_cnt, 1)) *)
CarryForward(arr, age, cnt, y) ==
    LET lastp == arr[Idx(age - cnt - 21)][y]
    IN  SetRows(arr, age - cnt - 20, AgeCount, y,
                Broadcast(Tile(lastp, cnt), cnt, AgeCount))

(* df.shape[0] < 600 and s == max_age *)
NoDataTrailing ==
    /\ pc = "ages"
    /\ Insufficient(nobs[s]) /\ s = max_age
    /\ SetPopPct
    /\ NoData_cnt' = NoData_cnt + 1
    /\ IF Broadcastable(NoData_cnt + 1, AgeCount - (s - (NoData_cnt + 1) - 20))
       THEN /\ etrparam_arr' = CarryForward(etrparam_arr, s, NoData_cnt + 1, t)
            /\ mtrxparam_arr' = CarryForward(mtrxparam_arr, s, NoData_cnt + 1, t)
            /\ pc' = "swept"
       ELSE /\ pc' = "error"
            /\ UNCHANGED <<etrparam_arr, mtrxparam_arr>>
    /\ UNCHANGED <<t, min_age, max_age, nobs, wsum, s, TotPop_yr, etrparams,
                   mtrxparams, Obs, etrparams_til, mtrxparams_til,
                   S, etrparam_arr_S, mtrxparam_arr_S,
                   AvgInc, elapsed_time, dict_params>>
    /\ UNCHANGED checkvars

(* Variant: the guard read as (NoData_cnt > 0) and (NoData_cnt == s-21) *)
InitialGapGuard_Counted(cnt, age) == cnt > 0 /\ cnt = age - 21

(* NoData_cnt > 0 & NoData_cnt == s-21: & binds tighter than > and ==, so  *)
(* this is the chain NoData_cnt > (0 & NoData_cnt) == s-21, and 0 & n = 0. *)
InitialGapGuard(cnt, age) == cnt > 0 /\ 0 = age - 21

(* NoData_cnt > 0 & NoData_cnt < s-21, read the same way *)
InteriorGapGuard(cnt, age) == cnt > 0 /\ 0 < age - 21

(* x0 + tvals[1:-1].reshape((NoData_cnt, 1)) * (x1 - x0) *)
LinInt(x0, x1, cnt) ==
    LET tvals == Linspace(0, 1, cnt + 2)
    IN  [k \in 0 .. (cnt - 1) |->
            VAdd(x0, VScale(tvals[k + 1], VSub(x1, x0)))]

(* Variant: the beginning of the spell read one row too late *)
X0Index_OneLate(age, cnt) == age - cnt - 21

(* Index of the row read as the beginning of the no-data spell *)
X0Index(age, cnt) == age - cnt - 22

(* Variant: the interpolated rows written one row too low *)
GapFill_OneRowEarly(arr, params, age, cnt, y) ==
    IF InitialGapGuard(cnt, age)
    THEN SetRows(arr, 0, age - 21, y, Tile(params, age - 21))
    ELSE IF InteriorGapGuard(cnt, age)
    THEN LET x0 == arr[Idx(X0Index(age, cnt))][y]
         IN  SetRows(arr, age - cnt - 22, age - 22, y, LinInt(x0, params, cnt))
    ELSE arr

(* The if / elif that follows the two fits *)
GapFill(arr, params, age, cnt, y) ==
    IF InitialGapGuard(cnt, age)
    THEN SetRows(arr, 0, age - 21, y, Tile(params, age - 21))
    ELSE IF InteriorGapGuard(cnt, age)
    THEN LET x0 == arr[Idx(X0Index(age, cnt))][y]
         IN  SetRows(arr, age - cnt - 21, age - 21, y, LinInt(x0, params, cnt))
    ELSE arr

(* The statement "NoData_cnt == 0" is a comparison whose value is dropped: *)
(* the counter keeps its value.                                            *)
CounterAfterFit(cnt) == cnt

(* Variant: the slice written starts two rows earlier *)
Extrapolate_FromBelow(arr, params, age, y) ==
    IF age = max_age /\ max_age < s_max
    THEN SetRows(arr, age - 22, AgeCount, y, Tile(params, s_max - max_age + 2))
    ELSE arr

(* if s == max_age and max_age < s_max: arr[s-20:, t-beg_yr, :] = tile *)
Extrapolate(arr, params, age, y) ==
    IF age = max_age /\ max_age < s_max
    THEN SetRows(arr, age - 20, AgeCount, y, Tile(params, s_max - max_age))
    ELSE arr

(* What the else branch does to one result array, given the fresh fit *)
FitAndFill(arr, params, age, cnt, y) ==
    LET fitted == [arr EXCEPT ![age - 21][y] = params]
    IN  Extrapolate(GapFill(fitted, params, age, cnt, y), params, age, y)

(* Variant: the first four coefficients divided by their column means *)
Rescale_FirstFour(x, bar) ==
    [j \in Params |-> IF j <= 4 THEN RDiv(x[j], bar[j]) ELSE x[j]]

(* etrparams[:5] = etrparams_til.x[:5] / varmat_bar[:5], the constant F    *)
(* and the four rate bounds taken as returned                              *)
Rescale(x, bar) ==
    [j \in Params |-> IF j <= 5 THEN RDiv(x[j], bar[j]) ELSE x[j]]

(* Variant: a result whose success flag is False aborts the run *)
HaveData_ChecksSuccess ==
    /\ pc = "ages"
    /\ ~ Insufficient(nobs[s])
    /\ SetPopPct
    /\ Obs' = PositiveIncomeRows(t, s, nobs[s])
    /\ \E fit \in FitResults :
         LET bar == ColumnMeans(t, s)
         IN  /\ etrparams_til' = fit.etr
             /\ mtrxparams_til' = fit.mtrx
             /\ IF fit.etr.success /\ fit.mtrx.success
                THEN /\ etrparams' =
                          [etrparams EXCEPT ![s] = Rescale(fit.etr.x, bar)]
                     /\ mtrxparams' =
                          [mtrxparams EXCEPT ![s] = Rescale(fit.mtrx.x, bar)]
                     /\ etrparam_arr' =
                          FitAndFill(etrparam_arr, Rescale(fit.etr.x, bar),
                                     s, NoData_cnt, t)
                     /\ mtrxparam_arr' =
                          FitAndFill(mtrxparam_arr, Rescale(fit.mtrx.x, bar),
                                     s, NoData_cnt, t)
                     /\ NextAge
                ELSE /\ pc' = "error" /\ s' = s
                     /\ UNCHANGED <<etrparams, mtrxparams, etrparam_arr,
                                    mtrxparam_arr>>
    /\ NoData_cnt' = CounterAfterFit(NoData_cnt)
    /\ UNCHANGED <<t, min_age, max_age, nobs, wsum, TotPop_yr,
                   S, etrparam_arr_S, mtrxparam_arr_S,
                   AvgInc, elapsed_time, dict_params>>
    /\ UNCHANGED checkvars

(* else: estimate both targets, then resolve the gap.  The success flag of *)
(* the two results is never read.                                          *)
HaveData ==
    /\ pc = "ages"
    /\ ~ Insufficient(nobs[s])
    /\ SetPopPct
    /\ Obs' = PositiveIncomeRows(t, s, nobs[s])
    /\ \E fit \in FitResults :
         LET bar == ColumnMeans(t, s)
         IN  /\ etrparams_til' = fit.etr
             /\ mtrxparams_til' = fit.mtrx
             /\ etrparams' = [etrparams EXCEPT ![s] = Rescale(fit.etr.x, bar)]
             /\ mtrxparams' =
                    [mtrxparams EXCEPT ![s] = Rescale(fit.mtrx.x, bar)]
             /\ etrparam_arr' =
                    FitAndFill(etrparam_arr, Rescale(fit.etr.x, bar),
                               s, NoData_cnt, t)
             /\ mtrxparam_arr' =
                    FitAndFill(mtrxparam_arr, Rescale(fit.mtrx.x, bar),
                               s, NoData_cnt, t)
    /\ NoData_cnt' = CounterAfterFit(NoData_cnt)
    /\ NextAge
    /\ UNCHANGED <<t, min_age, max_age, nobs, wsum, TotPop_yr,
                   S, etrparam_arr_S, mtrxparam_arr_S,
                   AvgInc, elapsed_time, dict_params>>
    /\ UNCHANGED checkvars

----------------------------------------------------------------------------
(* Age-bucket aggregation *)

(* np.floor of a non-negative value *)
Floor(x) == x[1] \div x[2]

RECURSIVE SumRange(_, _, _)
SumRange(f, lo, hi) ==
    IF lo > hi THEN Zero ELSE RAdd(f[lo], SumRange(f, lo + 1, hi))

(* age_cuts = np.linspace(0, s_max-s_min+1, S+1) *)
age_cuts(nS) == Linspace(0, s_max - s_min + 1, nS + 1)

(* Variant: a zero remainder steps back one row but is not reset to 1 *)
UpperCut_ZeroRemainder(nS, sb) ==
    LET cut == age_cuts(nS)[sb + 1]
        fl  == Floor(cut)
        rem == RSub(cut, <<fl, 1>>)
    IN  IF rem = Zero
        THEN [yrcut |-> fl - 1, rmndr_pct |-> Zero]
        ELSE [yrcut |-> fl, rmndr_pct |-> rem]

(* yrcut_ub and rmndr_pct_ub of bucket sb *)
UpperCut(nS, sb) ==
    LET cut == age_cuts(nS)[sb + 1]
        fl  == Floor(cut)
        rem == RSub(cut, <<fl, 1>>)
    IN  IF rem = Zero
        THEN [yrcut |-> fl - 1, rmndr_pct |-> One]
        ELSE [yrcut |-> fl, rmndr_pct |-> rem]

(* Variant: the lower remainder taken as rmndr_pct_ub, not 1 - rmndr_pct_ub *)
LowerCut_SameRemainder(nS, sb) ==
    IF sb = 0
    THEN [yrcut |-> Floor(age_cuts(nS)[0]), rmndr_pct |-> One]
    ELSE LET ub == UpperCut(nS, sb - 1)
         IN  [yrcut |-> ub.yrcut, rmndr_pct |-> ub.rmndr_pct]

(* yrcut_lb and rmndr_pct_lb at the start of the iteration of bucket sb *)
LowerCut(nS, sb) ==
    IF sb = 0
    THEN [yrcut |-> Floor(age_cuts(nS)[0]), rmndr_pct |-> One]
    ELSE LET ub == UpperCut(nS, sb - 1)
         IN  [yrcut |-> ub.yrcut, rmndr_pct |-> RSub(One, ub.rmndr_pct)]

(* Variant: the first row of the slice is not scaled by rmndr_pct_lb *)
age_wgts_LowerUnscaled(pop, nS, sb, y) ==
    LET lb == LowerCut(nS, sb)
        ub == UpperCut(nS, sb)
    IN  [k \in lb.yrcut .. ub.yrcut |->
            LET w0 == pop[k][y]
            IN  IF k = ub.yrcut THEN RMul(w0, ub.rmndr_pct) ELSE w0]

(* age_wgts of bucket sb for year y: the population shares of the slice,   *)
(* the first row scaled by rmndr_pct_lb, then the last by rmndr_pct_ub     *)
age_wgts(pop, nS, sb, y) ==
    LET lb == LowerCut(nS, sb)
        ub == UpperCut(nS, sb)
    IN  [k \in lb.yrcut .. ub.yrcut |->
            LET w0 == pop[k][y]
                w1 == IF k = lb.yrcut THEN RMul(w0, lb.rmndr_pct) ELSE w0
            IN  IF k = ub.yrcut THEN RMul(w1, ub.rmndr_pct) ELSE w1]

(* Variant: rows whose weight is zero are left out of the sum *)
BucketSum_SkipsZeroWeight(arr, pop, nS, sb) ==
    LET lb == LowerCut(nS, sb).yrcut
        ub == UpperCut(nS, sb).yrcut
    IN  [y \in YearIdx |->
            LET wg == age_wgts(pop, nS, sb, y)
            IN  [j \in Params |->
                    SumRange([k \in lb .. ub |->
                                 IF wg[k] = Zero THEN Zero
                                 ELSE RMul(arr[k][y][j], wg[k])],
                             lb, ub)]]

(* (arr[yrcut_lb:yrcut_ub+1, :, :] * age_wgts).sum(axis=0) *)
BucketSum(arr, pop, nS, sb) ==
    LET lb == LowerCut(nS, sb).yrcut
        ub == UpperCut(nS, sb).yrcut
    IN  [y \in YearIdx |->
            LET wg == age_wgts(pop, nS, sb, y)
            IN  [j \in Params |->
                    SumRange([k \in lb .. ub |-> RMul(arr[k][y][j], wg[k])],
                             lb, ub)]]

(* Variant: the weighted bucket loop run for every S *)
AggregateArr_AlwaysLoop(arr, pop, nS) ==
    [sb \in 0 .. (nS - 1) |-> BucketSum(arr, pop, nS, sb)]

(* if S == s_max - s_min + 1: ... elif S < s_max - s_min + 1: ... *)
AggregateArr(arr, pop, nS) ==
    IF nS = s_max - s_min + 1
    THEN arr
    ELSE [sb \in 0 .. (nS - 1) |-> BucketSum(arr, pop, nS, sb)]

Aggregate ==
    /\ pc = "swept"
    /\ S <= s_max - s_min + 1
    /\ etrparam_arr_S' = AggregateArr(etrparam_arr, PopPct_age, S)
    /\ mtrxparam_arr_S' = AggregateArr(mtrxparam_arr, PopPct_age, S)
    /\ pc' = "aggregated"
    /\ UNCHANGED <<S, t, min_age, max_age, nobs, wsum, s, NoData_cnt,
                   etrparam_arr, mtrxparam_arr, PopPct_age, TotPop_yr,
                   etrparams, mtrxparams, AvgInc, elapsed_time, dict_params,
                   Obs, etrparams_til, mtrxparams_til>>
    /\ UNCHANGED checkvars

----------------------------------------------------------------------------
(* Saving the results *)

(* Value of time.clock() - start_time, in seconds; nothing depends on it *)
ElapsedTimes == {4200}

(* Index of the last pair of the list whose key is k *)
LastWithKey(pairs, k) ==
    CHOOSE i \in DOMAIN pairs :
        /\ pairs[i][1] = k
        /\ \A n \in DOMAIN pairs : pairs[n][1] = k => n <= i

(* dict(pairs): a later pair replaces an earlier one with the same key *)
DictOf(pairs) ==
    [k \in {pairs[i][1] : i \in DOMAIN pairs} |->
        pairs[LastWithKey(pairs, k)][2]]

(* The list of pairs dict_params is built from.  A dictionary holds       *)
(* references: each value is given by the name of the object it refers to. *)
SavedPairs ==
    << <<"tfunc_params_S", "etrparam_arr_S">>,
       <<"tfunc_params_S", "mtrxparam_arr_S">>,
       <<"tfunc_avginc", "AvgInc">>,
       <<"tfunc_time", "elapsed_time">> >>

(* elapsed_time, dict_params and pickle.dump *)
Save ==
    /\ pc = "aggregated"
    /\ \E secs \in ElapsedTimes :
         /\ elapsed_time' = secs
         /\ dict_params' = DictOf(SavedPairs)
    /\ pc' = "saved"
    /\ UNCHANGED <<S, t, min_age, max_age, nobs, wsum, s, NoData_cnt,
                   etrparam_arr, mtrxparam_arr, PopPct_age, TotPop_yr,
                   etrparams, mtrxparams, etrparam_arr_S, mtrxparam_arr_S,
                   AvgInc, Obs, etrparams_til, mtrxparams_til>>
    /\ UNCHANGED checkvars

----------------------------------------------------------------------------
(* One evaluation of the objective, and the surface of the stored vector *)

(* Rows of df_trnc as pairs (labor income, capital income), both above 5 *)
MaxObs == 2

IncomePairs == {<<6, 6>>, <<6, 12>>, <<12, 6>>, <<12, 12>>}

Samples == [1 .. MaxObs -> IncomePairs]

(* Parameter vectors within the bounds bnds of the optimizer *)
Candidates ==
    { [j \in Params |->
          CASE j = 1 -> A
            [] j = 2 -> One
            [] j = 3 -> <<2, 1>>
            [] j = 4 -> D
            [] j = 5 -> <<1, 3>>
            [] j = 6 -> F
            [] OTHER -> rates[j - 6]] :
        A \in {<<1, 2>>, <<3, 1>>}, D \in {<<1, 2>>, <<3, 1>>},
        F \in {<<1, 2>>, <<2, 1>>},
        rates \in { << <<1, 2>>, Zero, <<1, 3>>, <<-1, 10>> >>,
                    << <<3, 10>>, <<1, 10>>, <<2, 5>>, Zero >> } }

InitFit ==
    /\ SweepInit
    /\ S = AgeCount
    /\ df_trnc \in Samples
    /\ wsumsq_params \in Candidates
    /\ txrates_est = << >>
    /\ etr_grid = << >>
    /\ mtrx_grid = << >>
    /\ FilterIdle
    /\ WealthIdle

(* Row r of varmat = np.hstack((X1, X2, X3, X4, X5, X6)) *)
varmat(rows, r) ==
    LET inc_lab == rows[r][1]
        inc_cap == rows[r][2]
    IN  << <<inc_lab * inc_lab, 1>>, <<inc_cap * inc_cap, 1>>,
           <<inc_lab * inc_cap, 1>>, <<inc_lab, 1>>, <<inc_cap, 1>>, One >>

RECURSIVE ColSum(_, _, _)
ColSum(rows, i, r) ==
    IF r = 0 THEN Zero ELSE RAdd(varmat(rows, r)[i], ColSum(rows, i, r - 1))

(* varmat.mean(axis=0) *)
varmat_bar(rows) ==
    [i \in 1 .. 6 |-> RDiv(ColSum(rows, i, Len(rows)), <<Len(rows), 1>>)]

(* (varmat - varmat_bar)/varmat_bar, the last column then set to ones *)
varmat_hat(rows, r) ==
    LET bar == varmat_bar(rows)
    IN  [i \in 1 .. 6 |->
            IF i = 6 THEN One
            ELSE RDiv(RSub(varmat(rows, r)[i], bar[i]), bar[i])]

(* phi = X4 / (X4 + X5) *)
phi(rows, r) == Rat(rows[r][1], rows[r][1] + rows[r][2])

(* np.dot(row[:n], coef[:n]) *)
RECURSIVE Dot(_, _, _)
Dot(row, coef, n) ==
    IF n = 0 THEN Zero
    ELSE RAdd(RMul(row[n], coef[n]), Dot(row, coef, n - 1))

(* The ratio of polynomials between the rate bounds, weighted by phi *)
RateOf(ph, P_num, P_den, max_x, min_x, max_y, min_y) ==
    RAdd(RMul(RAdd(RMul(ph, RSub(max_x, min_x)),
                   RMul(RSub(One, ph), RSub(max_y, min_y))),
              RDiv(P_num, P_den)),
         RAdd(RMul(ph, min_x), RMul(RSub(One, ph), min_y)))

(* txrates_est of wsumsq for row r *)
wsumsq_est(rows, r, p) ==
    LET hat   == varmat_hat(rows, r)
        Coef7 == Dot([i \in 1 .. 5 |-> One], p, 5)
        P_num == RAdd(Dot(hat, p, 5), Coef7)
        P_den == RAdd(Dot(hat, p, 6), Coef7)
    IN  RateOf(phi(rows, r), P_num, P_den, p[7], p[8], p[9], p[10])

(* gen_etr_grid at one point (X, Y) *)
gen_etr_grid(X, Y, p) ==
    LET poly  == << <<X * X, 1>>, <<Y * Y, 1>>, <<X * Y, 1>>,
                    <<X, 1>>, <<Y, 1>> >>
        P_num == Dot(poly, p, 5)
        P_den == RAdd(Dot(poly, p, 5), p[6])
    IN  RateOf(Rat(X, X + Y), P_num, P_den, p[7], p[8], p[9], p[10])

(* The optimizer evaluates wsumsq at wsumsq_params *)
EvalObjective ==
    /\ df_trnc # << >>
    /\ txrates_est = << >>
    /\ txrates_est' =
          [r \in 1 .. Len(df_trnc) |-> wsumsq_est(df_trnc, r, wsumsq_params)]
    /\ UNCHANGED <<df_trnc, wsumsq_params, etr_grid, mtrx_grid>>
    /\ UNCHANGED <<sweepvars, filtervars, wealthvars>>

(* The vector is rescaled as it is for storing, and the functional form   *)
(* is evaluated on the raw incomes of every row                           *)
EvalStored ==
    /\ df_trnc # << >>
    /\ etr_grid = << >>
    /\ etr_grid' =
          LET stored == Rescale(wsumsq_params, varmat_bar(df_trnc))
          IN  [r \in 1 .. Len(df_trnc) |->
                  gen_etr_grid(df_trnc[r][1], df_trnc[r][2], stored)]
    /\ UNCHANGED <<df_trnc, wsumsq_params, txrates_est, mtrx_grid>>
    /\ UNCHANGED <<sweepvars, filtervars, wealthvars>>

(* Variant: phi taken as the share of capital income *)
gen_mtrx_grid_est_CapitalShare(X, Y, p) ==
    LET H == p[1]  I == p[2]  J == p[3]  K == p[4]  L == p[5]  M == p[6]
        max_x == p[7]  min_x == p[8]  max_y == p[9]  min_y == p[10]
        Xr == <<X, 1>>
        Yr == <<Y, 1>>
        ph == RDiv(Yr, RAdd(Xr, Yr))
        P_num == RAdd(RAdd(RAdd(RAdd(RMul(H, RMul(Xr, Xr)),
                                     RMul(I, RMul(Yr, Yr))),
                                RMul(J, RMul(Xr, Yr))),
                           RMul(K, Xr)),
                      RMul(L, Yr))
        P_den == RAdd(RAdd(RAdd(RAdd(RAdd(RMul(H, RMul(Xr, Xr)),
                                          RMul(I, RMul(Yr, Yr))),
                                     RMul(J, RMul(Xr, Yr))),
                                RMul(K, Xr)),
                           RMul(L, Yr)),
                      M)
    IN  RAdd(RMul(RAdd(RMul(ph, RSub(max_x, min_x)),
                       RMul(RSub(One, ph), RSub(max_y, min_y))),
                  RDiv(P_num, P_den)),
             RAdd(RMul(ph, min_x), RMul(RSub(One, ph), min_y)))

(* gen_mtrx_grid_est at one point (X, Y) *)
gen_mtrx_grid_est(X, Y, p) ==
    LET H == p[1]  I == p[2]  J == p[3]  K == p[4]  L == p[5]  M == p[6]
        max_x == p[7]  min_x == p[8]  max_y == p[9]  min_y == p[10]
        Xr == <<X, 1>>
        Yr == <<Y, 1>>
        ph == RDiv(Xr, RAdd(Xr, Yr))
        P_num == RAdd(RAdd(RAdd(RAdd(RMul(H, RMul(Xr, Xr)),
                                     RMul(I, RMul(Yr, Yr))),
                                RMul(J, RMul(Xr, Yr))),
                           RMul(K, Xr)),
                      RMul(L, Yr))
        P_den == RAdd(RAdd(RAdd(RAdd(RAdd(RMul(H, RMul(Xr, Xr)),
                                          RMul(I, RMul(Yr, Yr))),
                                     RMul(J, RMul(Xr, Yr))),
                                RMul(K, Xr)),
                           RMul(L, Yr)),
                      M)
    IN  RAdd(RMul(RAdd(RMul(ph, RSub(max_x, min_x)),
                       RMul(RSub(One, ph), RSub(max_y, min_y))),
                  RDiv(P_num, P_den)),
             RAdd(RMul(ph, min_x), RMul(RSub(One, ph), min_y)))

(* The marginal-rate form is evaluated on the raw incomes of every row,   *)
(* for the vector as it is stored                                         *)
EvalMtrxEst ==
    /\ df_trnc # << >>
    /\ mtrx_grid = << >>
    /\ mtrx_grid' =
          LET stored == Rescale(wsumsq_params, varmat_bar(df_trnc))
          IN  [r \in 1 .. Len(df_trnc) |->
                  gen_mtrx_grid_est(df_trnc[r][1], df_trnc[r][2], stored)]
    /\ UNCHANGED <<df_trnc, wsumsq_params, txrates_est, etr_grid>>
    /\ UNCHANGED <<sweepvars, filtervars, wealthvars>>

NextFit ==
    \/ EvalObjective
    \/ EvalStored
    \/ EvalMtrxEst

SpecFit == InitFit /\ [][NextFit]_vars

----------------------------------------------------------------------------
(* The outlier filter of a year, record by record.  LoadYear above draws  *)
(* the range and the counts the filter leaves; here they are computed     *)
(* from a table of records.  Rates are held in hundredths.                *)

MaxRecs == 2

(* Records on, inside and outside each threshold, at ages below, inside   *)
(* and above the configured range                                         *)
RecordMenu ==
    { [Age |-> 20, ETR |-> 10, ATI |-> 50, Weights |-> 1],
      [Age |-> 20, ETR |-> -20, ATI |-> 3, Weights |-> 1],
      [Age |-> 21, ETR |-> -15, ATI |-> 5, Weights |-> 2],
      [Age |-> 21, ETR |-> 51, ATI |-> 100, Weights |-> 1],
      [Age |-> 22, ETR |-> 50, ATI |-> 30, Weights |-> 1],
      [Age |-> 22, ETR |-> -16, ATI |-> 40, Weights |-> 3],
      [Age |-> 23, ETR |-> 20, ATI |-> 4, Weights |-> 1],
      [Age |-> 23, ETR |-> 0, ATI |-> 60, Weights |-> 2],
      [Age |-> s_max, ETR |-> 30, ATI |-> 70, Weights |-> 1],
      [Age |-> s_max + 1, ETR |-> 25, ATI |-> 80, Weights |-> 1],
      [Age |-> s_max + 2, ETR |-> 60, ATI |-> 90, Weights |-> 2],
      [Age |-> s_max + 2, ETR |-> 40, ATI |-> 6, Weights |-> 1] }

Tables == [1 .. MaxRecs -> RecordMenu]

InitFilter ==
    /\ SweepInit
    /\ S = AgeCount
    /\ FitIdle
    /\ WealthIdle
    /\ data \in Tables
    /\ data_trnc = << >>

(* (column * data['Weights']).sum() over the first n rows *)
RECURSIVE WeightedSum(_, _)
WeightedSum(rows, n) ==
    IF n = 0 THEN 0
    ELSE rows[n].ATI * rows[n].Weights + WeightedSum(rows, n - 1)

(* data['Weights'].sum() over the first n rows *)
RECURSIVE WeightSum(_, _)
WeightSum(rows, n) ==
    IF n = 0 THEN 0 ELSE rows[n].Weights + WeightSum(rows, n - 1)

(* Variant: a rate of exactly 0.5 dropped as well *)
NotAboveHalf_Strict(r) == ~ (r.ETR >= 50)

(* data.drop(data[data['Effective Tax Rate'] > 0.5].index) keeps r *)
NotAboveHalf(r) == ~ (r.ETR > 50)

(* drop of 'Effective Tax Rate' < -0.15 keeps r *)
NotBelowFloor(r) == ~ (r.ETR < -15)

(* drop of 'Adjusted Total income' < 5 keeps r *)
NotBelowFive(r) == ~ (r.ATI < 5)

(* The three drops, in the order of the code *)
DropOutliers(rows) ==
    SelectSeq(SelectSeq(SelectSeq(rows, NotAboveHalf), NotBelowFloor),
              NotBelowFive)

(* np.maximum and np.minimum of two numbers *)
Maximum(m, n) == IF m >= n THEN m ELSE n

Minimum(m, n) == IF m <= n THEN m ELSE n

AgesOf(rows) == { rows[i].Age : i \in 1 .. Len(rows) }

SetMin(A) == CHOOSE x \in A : \A y \in A : x <= y

SetMax(A) == CHOOSE x \in A : \A y \in A : x >= y

(* df = data_trnc[data_trnc['Age'] == s] *)
RowsOfAge(rows, a) == SelectSeq(rows, LAMBDA r : r.Age = a)

(* Lines 428-452 on a table of records: the averages of the unfiltered    *)
(* table, the filter, and the range of ages; min() of an empty column is  *)
(* nan, which int() rejects.                                              *)
FilterYear ==
    /\ pc = "start"
    /\ data # << >>
    /\ \E y \in YearIdx :
          /\ t' = y
          /\ AvgInc' = [AvgInc EXCEPT
                           ![y] = Rat(WeightedSum(data, Len(data)),
                                      WeightSum(data, Len(data)))]
          /\ TotPop_yr' = [TotPop_yr EXCEPT ![y] = WeightSum(data, Len(data))]
    /\ data_trnc' = DropOutliers(data)
    /\ IF data_trnc' = << >>
       THEN /\ pc' = "error"
            /\ UNCHANGED <<min_age, max_age, nobs, wsum, s, NoData_cnt>>
       ELSE /\ min_age' = Maximum(SetMin(AgesOf(data_trnc')), s_min)
            /\ max_age' = Minimum(SetMax(AgesOf(data_trnc')), s_max)
            /\ nobs' = [a \in Ages |-> Len(RowsOfAge(data_trnc', a))]
            /\ wsum' = [a \in Ages |->
                          LET df == RowsOfAge(data_trnc', a)
                          IN  WeightSum(df, Len(df))]
            /\ s' = min_age'
            /\ NoData_cnt' = 0
            /\ pc' = IF min_age' <= max_age' THEN "ages" ELSE "swept"
    /\ UNCHANGED <<data, S, etrparam_arr_S, mtrxparam_arr_S, etrparam_arr,
                   mtrxparam_arr, PopPct_age, etrparams, mtrxparams,
                   elapsed_time, dict_params, Obs, etrparams_til,
                   mtrxparams_til>>
    /\ UNCHANGED <<fitvars, wealthvars>>

NextFilter == FilterYear

SpecFilter == InitFilter /\ [][NextFilter]_vars

----------------------------------------------------------------------------
(* The aggregation as a function of the arrays it is given.  The sweep    *)
(* above never leaves the sentinel in a cell it aggregates; here the      *)
(* cells of the first year are drawn, the sentinel included, and the      *)
(* aggregation and the saving are applied to them.                        *)

AggCells ==
    { NaNVec,
      VecOf(<<2, 4, 6, 8, 10, 12, 5, -1, 7, 0>>),
      VecOf(<<5, 1, 8, 2, 9, 3, 10, 2, 3, 1>>) }

(* The marginal-rate cell that goes with an effective-rate cell: the      *)
(* sentinel is always written to both arrays                              *)
MtrxCellFor(v) ==
    IF v = NaNVec THEN NaNVec
    ELSE VecOf(<<1, 3, 5, 7, 9, 11, 6, 1, 4, -2>>)

InitAgg ==
    /\ pc = "swept"
    /\ S \in 1 .. AgeCount
    /\ etrparam_arr_S = << >>
    /\ mtrxparam_arr_S = << >>
    /\ t = 0
    /\ min_age = s_min
    /\ max_age = s_max
    /\ nobs = [a \in Ages |-> 0]
    /\ wsum = [a \in Ages |-> a - s_min + 1]
    /\ s = s_max
    /\ NoData_cnt = 0
    /\ \E cells \in [AgeIdx -> AggCells] :
          /\ etrparam_arr =
                [i \in AgeIdx |->
                    [y \in YearIdx |-> IF y = 0 THEN cells[i] ELSE ZeroVec]]
          /\ mtrxparam_arr =
                [i \in AgeIdx |->
                    [y \in YearIdx |->
                        IF y = 0 THEN MtrxCellFor(cells[i]) ELSE ZeroVec]]
    /\ PopPct_age =
          [i \in AgeIdx |->
              [y \in YearIdx |->
                  IF y = 0 THEN Rat(2 * (i + 1), AgeCount * (AgeCount + 1))
                  ELSE Zero]]
    /\ TotPop_yr =
          [y \in YearIdx |->
              IF y = 0 THEN (AgeCount * (AgeCount + 1)) \div 2 ELSE 0]
    /\ etrparams = NoFit
    /\ mtrxparams = NoFit
    /\ AvgInc = [y \in YearIdx |-> Zero]
    /\ elapsed_time = 0
    /\ dict_params = << >>
    /\ Obs = 0
    /\ etrparams_til = NoResult
    /\ mtrxparams_til = NoResult
    /\ FitIdle
    /\ FilterIdle
    /\ WealthIdle

NextAgg ==
    \/ Aggregate
    \/ Save

SpecAgg == InitAgg /\ [][NextAgg]_vars

----------------------------------------------------------------------------
(* get_wealth_data of wealth.py: the columns of data2 each ability group  *)
(* averages.  Weights are held in thousandths; data2 has one column per   *)
(* percentile 1..99, and column k of the row followed holds k + 1.        *)

Percentiles == 99

MaxJ == 3

WeightMenu ==
    {5, 10, 245, 495, 985, 990, 995} \cup { 50 * k : k \in 1 .. 20 }

RECURSIVE CumSum(_, _)
CumSum(f, j) == IF j < 0 THEN 0 ELSE f[j] + CumSum(f, j - 1)

(* Weight vectors of J groups that sum to 1 *)
WeightVectors(J) ==
    { w \in [0 .. (J - 1) -> WeightMenu] : CumSum(w, J - 1) = 1000 }

InitWealth ==
    /\ SweepInit
    /\ S = AgeCount
    /\ FitIdle
    /\ FilterIdle
    /\ \E J \in 1 .. MaxJ : bin_weights \in WeightVectors(J)
    /\ perc_array = << >>
    /\ wealth_cols = << >>
    /\ wealth_data_array = << >>

(* bins2 = (bin_weights * 100).astype(int): truncation towards zero *)
bins2(w) == [j \in DOMAIN w |-> (w[j] * 100) \div 1000]

(* perc_array = np.cumsum(bins2); perc_array -= 1 *)
PercArray(w) == [j \in DOMAIN w |-> CumSum(bins2(w), j) - 1]

(* A slice bound on an axis of n entries: a negative bound counts from    *)
(* the end, and the result is clipped to the axis                         *)
SliceBound(i, n) ==
    LET k == IF i < 0 THEN i + n ELSE i
    IN  IF k < 0 THEN 0 ELSE IF k > n THEN n ELSE k

(* The columns of data2[:, lo:hi] *)
Slice(lo, hi) ==
    { k \in 0 .. (Percentiles - 1) :
         SliceBound(lo, Percentiles) <= k /\ k < SliceBound(hi, Percentiles) }

RECURSIVE ColumnTotal(_)
ColumnTotal(cols) ==
    IF cols = {} THEN 0
    ELSE LET k == CHOOSE x \in cols : TRUE
         IN  (k + 1) + ColumnTotal(cols \ {k})

(* data2[:, cols].mean(axis=1) for the row followed; nan for no column *)
ColumnMean(cols) ==
    IF cols = {} THEN NaN ELSE Rat(ColumnTotal(cols), Cardinality(cols))

(* The columns group j averages: [:perc_array[0]] for group 0, and        *)
(* [perc_array[j-1]:perc_array[j]] for the groups of the loop             *)
GroupColumns(perc, j) ==
    IF j = 0 THEN Slice(0, perc[0]) ELSE Slice(perc[j - 1], perc[j])

get_wealth_data ==
    /\ bin_weights # << >>
    /\ perc_array = << >>
    /\ perc_array' = PercArray(bin_weights)
    /\ wealth_cols' =
          [j \in DOMAIN bin_weights |-> GroupColumns(perc_array', j)]
    /\ wealth_data_array' =
          [j \in DOMAIN bin_weights |-> ColumnMean(wealth_cols'[j])]
    /\ UNCHANGED bin_weights
    /\ UNCHANGED <<sweepvars, fitvars, filtervars>>

NextWealth == get_wealth_data

SpecWealth == InitWealth /\ [][NextWealth]_vars

----------------------------------------------------------------------------
Next ==
    \/ LoadYear
    \/ NoDataInterior
    \/ NoDataTrailing
    \/ HaveData
    \/ Aggregate
    \/ Save

Spec == Init /\ [][Next]_vars

----------------------------------------------------------------------------
(* Vocabulary of the properties *)

Sufficient(a) == nobs[a] >= 600

VecIsNaN(v) == \A j \in Params : IsNaN(v[j])

VecHasNaN(v) == \E j \in Params : IsNaN(v[j])

InRange(a) == min_age <= a /\ a <= max_age

RangeAges == min_age .. max_age

(* The age loop of the year has finished without an error *)
SweepOver == pc \in {"swept", "aggregated", "saved"}

(* The age loop of the year has finished, or the run was aborted in it *)
SweepEnded == pc \in {"swept", "aggregated", "saved", "error"}

(* The body of the age loop has been executed for age a *)
Processed(a) == InRange(a) /\ (a < s \/ (a = s /\ SweepOver))

EtrCell(a) == etrparam_arr[a - s_min][t]

MtrxCell(a) == mtrxparam_arr[a - s_min][t]

SomeSufficient == \E a \in RangeAges : Sufficient(a)

FirstFit == CHOOSE g \in RangeAges :
                Sufficient(g) /\ \A a \in RangeAges : a < g => ~ Sufficient(a)

LastFit == CHOOSE g \in RangeAges :
               Sufficient(g) /\ \A a \in RangeAges : a > g => ~ Sufficient(a)

(* pa + (k/(n+1)) * (pb - pa) *)
InterpPoint(pa, pb, k, n) == VAdd(pa, VScale(Rat(k, n + 1), VSub(pb, pa)))

(* Ages a < b of the range, both fitted, with only insufficient ages between *)
InteriorGap(a, b) ==
    /\ InRange(a) /\ InRange(b) /\ b - a >= 2
    /\ Sufficient(a) /\ Sufficient(b)
    /\ \A g \in (a + 1) .. (b - 1) : ~ Sufficient(g)

----------------------------------------------------------------------------
(* C1: at the end of a year's sweep, every interior gap a < a+1..a+n < b   *)
(* between two fitted ages holds, for both targets, the interpolation      *)
(* P(a) + (k/(n+1)) * (P(b) - P(a)) at gap age a+k, also when it is not    *)
(* the first gap of the year.                                              *)
C1_InteriorGapInterpolated ==
    SweepOver =>
        \A a \in Ages, b \in Ages :
            InteriorGap(a, b) =>
                \A k \in 1 .. (b - a - 1) :
                    /\ EtrCell(a + k) =
                         InterpPoint(etrparams[a], etrparams[b], k, b - a - 1)
                    /\ MtrxCell(a + k) =
                         InterpPoint(mtrxparams[a], mtrxparams[b], k, b - a - 1)

(* C2: when the last age of the range lacks data, the sweep ends without   *)
(* an error and every age after the last fitted age, up to s_max, holds    *)
(* the vector of that last fitted age, for both targets.                   *)
C2_TrailingCarryForward ==
    (SweepEnded /\ ~ Sufficient(max_age) /\ SomeSufficient) =>
        /\ pc # "error"
        /\ \A a \in (LastFit + 1) .. s_max :
              /\ EtrCell(a) = etrparams[LastFit]
              /\ MtrxCell(a) = mtrxparams[LastFit]

(* C3: when the first ages of the range lack data, every age before the    *)
(* first fitted age g holds the fitted vector of g at the end of the       *)
(* sweep, for both targets.                                                *)
C3_LeadingGapBackwardCopy ==
    (SweepOver /\ ~ Sufficient(min_age) /\ SomeSufficient) =>
        \A a \in min_age .. (FirstFit - 1) :
            /\ EtrCell(a) = etrparams[FirstFit]
            /\ MtrxCell(a) = mtrxparams[FirstFit]

(* C4: in a year in which every age of the range has at least 600         *)
(* observations, no cell of the year is ever the missing sentinel, no     *)
(* error is raised, every age already processed holds exactly its own fit *)
(* and every age of the range not yet processed still holds its initial   *)
(* value, for both targets.                                               *)
C4_NoGapYearIsDirectFits ==
    (pc # "start" /\ \A a \in RangeAges : Sufficient(a)) =>
        /\ pc # "error"
        /\ \A i \in AgeIdx :
              /\ ~ VecHasNaN(etrparam_arr[i][t])
              /\ ~ VecHasNaN(mtrxparam_arr[i][t])
        /\ \A a \in RangeAges :
              IF Processed(a)
              THEN EtrCell(a) = etrparams[a] /\ MtrxCell(a) = mtrxparams[a]
              ELSE EtrCell(a) = ZeroVec /\ MtrxCell(a) = ZeroVec

C4_Witness ==
    /\ pc = "swept"
    /\ max_age - min_age >= 2
    /\ \A a \in RangeAges : Sufficient(a)
    /\ etrparams[min_age] # etrparams[max_age]

(* C5: in a year in which no age of the range has at least 600            *)
(* observations, the sweep ends without an error and every cell of the    *)
(* range holds the missing sentinel, for both targets.                    *)
C5_NoDataYearStaysSentinel ==
    (SweepEnded /\ \A a \in RangeAges : ~ Sufficient(a)) =>
        /\ pc # "error"
        /\ \A a \in RangeAges :
              VecIsNaN(EtrCell(a)) /\ VecIsNaN(MtrxCell(a))

(* C6: in a range of three consecutive ages of which only the first and   *)
(* the last have at least 600 observations, the middle age ends the sweep *)
(* holding the element-wise average of the two fits, for both targets.    *)
ThreeAgesMiddleMissing ==
    /\ max_age = min_age + 2
    /\ Sufficient(min_age) /\ ~ Sufficient(min_age + 1) /\ Sufficient(max_age)

Average(v, w) == VScale(Rat(1, 2), VAdd(v, w))

C6_MidpointOfThreeAges ==
    (SweepOver /\ ThreeAgesMiddleMissing) =>
        /\ EtrCell(min_age + 1) =
              Average(etrparams[min_age], etrparams[max_age])
        /\ MtrxCell(min_age + 1) =
              Average(mtrxparams[min_age], mtrxparams[max_age])

C6_Witness ==
    /\ pc = "swept"
    /\ ThreeAgesMiddleMissing
    /\ etrparams[min_age] # etrparams[max_age]
    /\ ~ VecHasNaN(EtrCell(min_age + 1))

(* C7: in a range of at least two ages in which every age but the last    *)
(* has at least 600 observations, the sweep ends without an error and the *)
(* last age holds exactly the fit of the age before it, for both targets. *)
OnlyLastAgeMissing ==
    /\ max_age > min_age
    /\ \A a \in min_age .. (max_age - 1) : Sufficient(a)
    /\ ~ Sufficient(max_age)

C7_LastAgeTakesPrecedingFit ==
    (SweepEnded /\ OnlyLastAgeMissing) =>
        /\ pc # "error"
        /\ EtrCell(max_age) = etrparams[max_age - 1]
        /\ MtrxCell(max_age) = mtrxparams[max_age - 1]

C7_Witness ==
    /\ pc = "swept"
    /\ OnlyLastAgeMissing
    /\ min_age = 21 /\ max_age = s_max
    /\ etrparams[max_age - 1] # etrparams[max_age - 2]

(* C8: once the fit of an age with at least 600 observations has been     *)
(* written to its cell, the cell keeps that fit for the rest of the       *)
(* year's sweep, for both targets.                                        *)
C8_FittedCellsKeepTheirFit ==
    pc # "start" =>
        \A a \in RangeAges :
            (Processed(a) /\ Sufficient(a)) =>
                /\ EtrCell(a) = etrparams[a]
                /\ MtrxCell(a) = mtrxparams[a]

----------------------------------------------------------------------------
(* cut_i = i * ageCount / S, so S * cut_i is the integer i * ageCount *)
CutTimesS(i) == i * AgeCount

IntMin(m, n) == IF m <= n THEN m ELSE n

IntMax(m, n) == IF m <= n THEN n ELSE m

(* Length of [a, a+1] intersected with [cut_sb, cut_(sb+1)] *)
Overlap(a, sb) ==
    LET lo == IntMax(a * S, CutTimesS(sb))
        hi == IntMin((a + 1) * S, CutTimesS(sb + 1))
    IN  IF hi <= lo THEN Zero ELSE Rat(hi - lo, S)

(* Sum over the ages 0..a that overlap bucket sb of                       *)
(* overlap * share * parameter                                            *)
RECURSIVE OverlapSum(_, _, _, _, _)
OverlapSum(arr, sb, y, j, a) ==
    IF a < 0 THEN Zero
    ELSE LET rest == OverlapSum(arr, sb, y, j, a - 1)
             ov   == Overlap(a, sb)
         IN  IF ov = Zero THEN rest
             ELSE RAdd(rest, RMul(RMul(ov, PopPct_age[a][y]), arr[a][y][j]))

(* C9: for S < ageCount, every bucket aggregate equals the sum over the   *)
(* ages of overlap(a, s) * share[a, year] * P[a, year], for every year,   *)
(* parameter and target.                                                  *)
C9_BucketIsOverlapWeightedSum ==
    (pc = "aggregated" /\ S < AgeCount) =>
        \A sb \in 0 .. (S - 1), y \in YearIdx, j \in Params :
            /\ etrparam_arr_S[sb][y][j] =
                  OverlapSum(etrparam_arr, sb, y, j, AgeCount - 1)
            /\ mtrxparam_arr_S[sb][y][j] =
                  OverlapSum(mtrxparam_arr, sb, y, j, AgeCount - 1)

C9_Witness ==
    /\ pc = "aggregated"
    /\ S < AgeCount /\ AgeCount % S # 0
    /\ \A sb \in 0 .. (S - 1) :
          /\ etrparam_arr_S[sb][t][1] # Zero
          /\ ~ IsNaN(etrparam_arr_S[sb][t][1])

(* C10: when S equals s_max - s_min + 1, the aggregated arrays are        *)
(* element for element the per-age arrays, for both targets.              *)
C10_FullBucketCountIsIdentity ==
    (pc = "aggregated" /\ S = s_max - s_min + 1) =>
        /\ etrparam_arr_S = etrparam_arr
        /\ mtrxparam_arr_S = mtrxparam_arr

C10_Witness ==
    /\ pc = "aggregated"
    /\ S = s_max - s_min + 1
    /\ \E a \in RangeAges :
          /\ Sufficient(a)
          /\ PopPct_age[a - s_min][t] # One
          /\ etrparam_arr_S[a - s_min][t] = etrparams[a]

----------------------------------------------------------------------------
(* Sum of share * parameter over the ages lo .. hi *)
RECURSIVE ShareSum(_, _, _, _, _)
ShareSum(arr, y, j, lo, hi) ==
    IF lo > hi THEN Zero
    ELSE RAdd(RMul(PopPct_age[lo][y], arr[lo][y][j]),
              ShareSum(arr, y, j, lo + 1, hi))

(* C11: when S < ageCount divides ageCount, every cut point i*ageCount/S  *)
(* is an integer and bucket sb aggregates to the sum of share * vector    *)
(* over exactly the ages cut_sb <= a < cut_(sb+1), each at full weight,   *)
(* for every year, parameter and target.                                  *)
C11_IntegralCutsTakeWholeAges ==
    (pc = "aggregated" /\ S < AgeCount /\ AgeCount % S = 0) =>
        \A sb \in 0 .. (S - 1), y \in YearIdx, j \in Params :
            LET width == AgeCount \div S
                first == sb * width
                last  == (sb + 1) * width - 1
            IN  /\ etrparam_arr_S[sb][y][j] =
                      ShareSum(etrparam_arr, y, j, first, last)
                /\ mtrxparam_arr_S[sb][y][j] =
                      ShareSum(mtrxparam_arr, y, j, first, last)

(* Four ages, two buckets, shares 0.1, 0.2, 0.3, 0.4, every age fitted *)
C11_Witness ==
    /\ pc = "aggregated"
    /\ AgeCount = 4 /\ S = 2
    /\ min_age = s_min /\ max_age = s_max
    /\ \A a \in Ages : Sufficient(a)
    /\ \A i \in AgeIdx : PopPct_age[i][t] = Rat(i + 1, 10)
    /\ etrparams[s_min + 1] # etrparams[s_min + 2]
    /\ etrparam_arr_S[0][t] =
          VAdd(VScale(Rat(1, 10), etrparams[s_min]),
               VScale(Rat(2, 10), etrparams[s_min + 1]))
    /\ etrparam_arr_S[1][t] =
          VAdd(VScale(Rat(3, 10), etrparams[s_min + 2]),
               VScale(Rat(4, 10), etrparams[s_min + 3]))

(* The ages whose interval [a, a+1] overlaps bucket sb *)
Spanned(sb) == {a \in AgeIdx : Overlap(a, sb) # Zero}

(* C12: every bucket aggregate is a weighted average of the vectors of    *)
(* the ages it spans, the weights summing to 1: a bucket whose spanned    *)
(* ages all hold the same vector v aggregates to v, for both targets.     *)
C12_BucketIsWeightedAverage ==
    (pc = "aggregated" /\ S < AgeCount) =>
        \A sb \in 0 .. (S - 1) :
            /\ (\A a \in Spanned(sb), b \in Spanned(sb) :
                    etrparam_arr[a][t] = etrparam_arr[b][t])
                => \A a \in Spanned(sb) :
                       etrparam_arr_S[sb][t] = etrparam_arr[a][t]
            /\ (\A a \in Spanned(sb), b \in Spanned(sb) :
                    mtrxparam_arr[a][t] = mtrxparam_arr[b][t])
                => \A a \in Spanned(sb) :
                       mtrxparam_arr_S[sb][t] = mtrxparam_arr[a][t]

----------------------------------------------------------------------------
(* C13: the dictionary handed to pickle.dump holds the aggregated array   *)
(* of the effective-rate target and that of the marginal-rate target      *)
(* under two different keys, and also the average-income vector and the   *)
(* elapsed time.                                                          *)
C13_BothArraysAreSaved ==
    pc = "saved" =>
        /\ \E k1 \in DOMAIN dict_params, k2 \in DOMAIN dict_params :
              /\ k1 # k2
              /\ dict_params[k1] = "etrparam_arr_S"
              /\ dict_params[k2] = "mtrxparam_arr_S"
        /\ \E k \in DOMAIN dict_params : dict_params[k] = "AvgInc"
        /\ \E k \in DOMAIN dict_params : dict_params[k] = "elapsed_time"

----------------------------------------------------------------------------
(* arr with the cells of every year but y replaced by the sentinel *)
Scrub(arr, y) ==
    [i \in AgeIdx |-> [z \in YearIdx |-> IF z = y THEN arr[i][z] ELSE NaNVec]]

(* A step of the year t' leaves the entries of every other year alone *)
OtherYearsKept ==
    \A y \in YearIdx \ {t'} :
        /\ AvgInc'[y] = AvgInc[y]
        /\ TotPop_yr'[y] = TotPop_yr[y]
        /\ \A i \in AgeIdx :
              /\ etrparam_arr'[i][y] = etrparam_arr[i][y]
              /\ mtrxparam_arr'[i][y] = mtrxparam_arr[i][y]
              /\ PopPct_age'[i][y] = PopPct_age[i][y]

(* What a step of the age loop writes to the slice of its year is what it *)
(* writes when the cells of all other years hold something else.          *)
OwnSliceDecides ==
    pc = "ages" =>
        /\ Sufficient(s) =>
              \A i \in AgeIdx :
                 /\ etrparam_arr'[i][t] =
                      FitAndFill(Scrub(etrparam_arr, t), etrparams'[s],
                                 s, NoData_cnt, t)[i][t]
                 /\ mtrxparam_arr'[i][t] =
                      FitAndFill(Scrub(mtrxparam_arr, t), mtrxparams'[s],
                                 s, NoData_cnt, t)[i][t]
        /\ (~ Sufficient(s) /\ s = max_age /\ pc' = "swept") =>
              \A i \in AgeIdx :
                 /\ etrparam_arr'[i][t] =
                      CarryForward(Scrub(etrparam_arr, t), s, NoData_cnt', t)[i][t]
                 /\ mtrxparam_arr'[i][t] =
                      CarryForward(Scrub(mtrxparam_arr, t), s, NoData_cnt', t)[i][t]

(* C14: every step taken for year t changes only the year-t slice of the  *)
(* two result arrays and of PopPct_age and the year-t entries of AvgInc   *)
(* and TotPop_yr, computes what it writes from the year-t slice alone,    *)
(* and the year starts with the no-data counter at 0.                     *)
C14_YearTouchesOnlyItsSlice ==
    [][ /\ OtherYearsKept
        /\ OwnSliceDecides
        /\ pc = "start" => NoData_cnt' = 0 ]_vars

(* A year other than the first has been swept, with a fit, an             *)
(* interpolated gap and a carried-forward last age, and the first year's  *)
(* entries are as they were initialised.                                  *)
C14_Witness ==
    /\ pc = "swept" /\ t = 1
    /\ \E a \in RangeAges : a > min_age /\ a < max_age /\ ~ Sufficient(a)
    /\ Sufficient(min_age) /\ ~ Sufficient(max_age)
    /\ EtrCell(max_age) # ZeroVec
    /\ AvgInc[1] # Zero /\ TotPop_yr[1] # 0
    /\ AvgInc[0] = Zero /\ TotPop_yr[0] = 0
    /\ \A i \in AgeIdx :
          /\ etrparam_arr[i][0] = ZeroVec
          /\ mtrxparam_arr[i][0] = ZeroVec
          /\ PopPct_age[i][0] = Zero

----------------------------------------------------------------------------
(* A fit has been run in the year *)
FitHasRun == \E a \in RangeAges : Processed(a) /\ Sufficient(a)

(* C15: whenever the optimizer has been run for a cell, the record set it *)
(* was run on (the records of the age with labor and capital income above *)
(* the floor) has at least 600 rows, and so is not empty.                 *)
C15_FitsRunOnEnoughRecords ==
    FitHasRun => Obs >= 600

----------------------------------------------------------------------------
(* The coefficients A, B, C, D, E, F of a parameter vector *)
Coefficients == 1 .. 6

PositiveCoefficients(v) ==
    \A j \in Coefficients : ~ IsNaN(v[j]) /\ v[j][1] > 0

(* C16: at the end of a year's sweep, every cell of the year for an age   *)
(* in [s_min, s_max] that is not the missing sentinel has A, B, C, D, E   *)
(* and F strictly positive, for both targets.                             *)
C16_StoredCoefficientsPositive ==
    SweepOver =>
        \A a \in Ages :
            /\ ~ VecIsNaN(EtrCell(a)) => PositiveCoefficients(EtrCell(a))
            /\ ~ VecIsNaN(MtrxCell(a)) => PositiveCoefficients(MtrxCell(a))

----------------------------------------------------------------------------
(* C17: a step of the age loop whose optimizer results report             *)
(* non-convergence enters no error state, writes the returned vectors,    *)
(* rescaled by the column means, to the cell of its age for both targets, *)
(* leaves no sentinel in the cells of the range below that age, and moves *)
(* on to the next age (or ends the sweep at the last age).                *)
C17_NonConvergedFitIsStored ==
    [][ ( /\ pc = "ages" /\ Sufficient(s)
          /\ ~ etrparams_til'.success \/ ~ mtrxparams_til'.success ) =>
            /\ pc' = IF s = max_age THEN "swept" ELSE "ages"
            /\ s' = IF s = max_age THEN s ELSE s + 1
            /\ etrparam_arr'[s - s_min][t] =
                  Rescale(etrparams_til'.x, ColumnMeans(t, s))
            /\ mtrxparam_arr'[s - s_min][t] =
                  Rescale(mtrxparams_til'.x, ColumnMeans(t, s))
            /\ \A a \in min_age .. (s - 1) :
                  /\ ~ VecHasNaN(etrparam_arr'[a - s_min][t])
                  /\ ~ VecHasNaN(mtrxparam_arr'[a - s_min][t]) ]_vars

(* The age before the current one was fitted after a gap, its optimizer   *)
(* runs did not converge, and its cells hold the rescaled vectors.        *)
C17_Witness ==
    /\ pc = "ages"
    /\ s >= min_age + 2
    /\ Sufficient(s - 1) /\ ~ Sufficient(s - 2)
    /\ ~ etrparams_til.success /\ ~ mtrxparams_til.success
    /\ EtrCell(s - 1) = Rescale(etrparams_til.x, ColumnMeans(t, s - 1))
    /\ EtrCell(s - 1) # etrparams_til.x
    /\ MtrxCell(s - 1) = Rescale(mtrxparams_til.x, ColumnMeans(t, s - 1))
    /\ ~ VecHasNaN(EtrCell(s - 2))

----------------------------------------------------------------------------
(* C18: for every parameter vector the optimizer tries and every record   *)
(* set, the rate the objective predicts for a row from the mean-centred   *)
(* design matrix equals the rate the functional form gives at the row's   *)
(* raw incomes for the vector rescaled as it is stored: the first five    *)
(* coefficients divided by their column means, the constant and the four  *)
(* rate bounds unchanged.                                                 *)
C18_StoredVectorReproducesFit ==
    (txrates_est # << >> /\ etr_grid # << >>) => txrates_est = etr_grid

C18_Witness ==
    /\ txrates_est # << >> /\ etr_grid # << >>
    /\ df_trnc[1] # df_trnc[2]
    /\ ~ IsNaN(txrates_est[1]) /\ ~ IsNaN(txrates_est[2])
    /\ txrates_est[1] # txrates_est[2]
    /\ \A j \in 1 .. 5 :
          Rescale(wsumsq_params, varmat_bar(df_trnc))[j] # wsumsq_params[j]

----------------------------------------------------------------------------
(* The ages of the unbroken run of insufficient ages that ends just       *)
(* before age a                                                           *)
GapBefore(a) ==
    {g \in min_age .. (a - 1) : \A b \in g .. (a - 1) : ~ Sufficient(b)}

(* C19: whenever an age is about to be processed, the no-data counter is  *)
(* the number of consecutive insufficient ages immediately before it; in  *)
(* particular it is 0 right after an age with sufficient data.            *)
C19_CounterCountsCurrentGap ==
    pc = "ages" => NoData_cnt = Cardinality(GapBefore(s))

----------------------------------------------------------------------------
(* C20: the step that fits the last age max_age of the range, when        *)
(* max_age < s_max, leaves every age above max_age up to s_max holding    *)
(* the fit of max_age, for both targets, and the cells at or below        *)
(* max_age as the fit and the gap filling of that step left them.         *)
C20_ExtrapolationAboveRange ==
    [][ (pc = "ages" /\ s = max_age /\ Sufficient(s) /\ max_age < s_max) =>
            /\ \A a \in (max_age + 1) .. s_max :
                  /\ etrparam_arr'[a - s_min][t] = etrparams'[max_age]
                  /\ mtrxparam_arr'[a - s_min][t] = mtrxparams'[max_age]
            /\ \A a \in s_min .. max_age :
                  /\ etrparam_arr'[a - s_min][t] =
                        GapFill([etrparam_arr EXCEPT
                                    ![s - s_min][t] = etrparams'[s]],
                                etrparams'[s], s, NoData_cnt, t)[a - s_min][t]
                  /\ mtrxparam_arr'[a - s_min][t] =
                        GapFill([mtrxparam_arr EXCEPT
                                    ![s - s_min][t] = mtrxparams'[s]],
                                mtrxparams'[s], s, NoData_cnt, t)[a - s_min][t]
      ]_vars

C20_Witness ==
    /\ pc = "swept"
    /\ Sufficient(max_age)
    /\ min_age < max_age /\ max_age + 2 <= s_max
    /\ EtrCell(max_age - 1) # etrparams[max_age]
    /\ \A a \in (max_age + 1) .. s_max :
          /\ EtrCell(a) = etrparams[max_age]
          /\ MtrxCell(a) = mtrxparams[max_age]

----------------------------------------------------------------------------
(* C21: the ages of a year are visited from min_age upwards, one age per  *)
(* step, up to max_age; an age with fewer than 600 records that is not    *)
(* the last one only counts as missing, an age with fewer than 600        *)
(* records that is the last one ends the sweep without a fit, and every   *)
(* other age, also one with exactly 600 records, is fitted.               *)
C21_AgesInOrderThreeCases ==
    [][ /\ pc = "start" => (pc' = "ages" /\ s' = min_age')
        /\ pc = "ages" =>
              /\ min_age <= s /\ s <= max_age
              /\ \/ pc' = "ages" /\ s' = s + 1 /\ s < max_age
                 \/ pc' \in {"swept", "error"} /\ s' = s /\ s = max_age
              /\ (nobs[s] < 600 /\ s < max_age) =>
                    /\ NoData_cnt' = NoData_cnt + 1
                    /\ etrparams' = etrparams /\ mtrxparams' = mtrxparams
                    /\ Obs' = Obs
                    /\ VecIsNaN(etrparam_arr'[s - s_min][t])
                    /\ pc' = "ages"
              /\ (nobs[s] < 600 /\ s = max_age) =>
                    /\ NoData_cnt' = NoData_cnt + 1
                    /\ etrparams' = etrparams /\ mtrxparams' = mtrxparams
                    /\ Obs' = Obs
                    /\ pc' \in {"swept", "error"}
              /\ nobs[s] >= 600 =>
                    /\ NoData_cnt' = NoData_cnt
                    /\ ~ VecHasNaN(etrparams'[s])
                    /\ ~ VecHasNaN(mtrxparams'[s])
                    /\ etrparam_arr'[s - s_min][t] = etrparams'[s]
                    /\ pc' # "error"
      ]_vars

(* A sweep over four ages has ended in which one age was only counted as  *)
(* missing, two were fitted on exactly 600 records and the last one       *)
(* lacked data.                                                           *)
C21_Witness ==
    /\ pc = "swept"
    /\ min_age = s_min /\ max_age = s_min + 3 /\ s = max_age
    /\ nobs[s_min] = 600 /\ nobs[s_min + 1] < 600
    /\ nobs[s_min + 2] = 600 /\ nobs[s_min + 3] < 600
    /\ NoData_cnt = 2
    /\ ~ VecHasNaN(etrparams[s_min]) /\ ~ VecHasNaN(etrparams[s_min + 2])
    /\ VecIsNaN(etrparams[s_min + 1]) /\ VecIsNaN(etrparams[s_min + 3])

(* C22: a step on an age with fewer than 600 records that is not the last *)
(* age of the range writes the missing sentinel to the cell of that age   *)
(* and year in both arrays, adds exactly 1 to the counter, records no     *)
(* fit, and leaves every other cell of both arrays as it was.             *)
C22_InteriorNoDataFrame ==
    [][ (pc = "ages" /\ nobs[s] < 600 /\ s < max_age) =>
          /\ VecIsNaN(etrparam_arr'[s - s_min][t])
          /\ VecIsNaN(mtrxparam_arr'[s - s_min][t])
          /\ NoData_cnt' = NoData_cnt + 1
          /\ etrparams_til' = etrparams_til
          /\ mtrxparams_til' = mtrxparams_til
          /\ Obs' = Obs
          /\ etrparams' = etrparams /\ mtrxparams' = mtrxparams
          /\ \A i \in AgeIdx : \A y \in YearIdx :
                (i # s - s_min \/ y # t) =>
                    /\ etrparam_arr'[i][y] = etrparam_arr[i][y]
                    /\ mtrxparam_arr'[i][y] = mtrxparam_arr[i][y]
      ]_vars

(* An age without data has just been marked, next to a fitted age of the  *)
(* same year, and the cell of the same age in another year still holds    *)
(* what it held before.                                                   *)
C22_Witness ==
    /\ pc = "ages" /\ s = s_min + 2 /\ min_age = s_min
    /\ nobs[s_min] >= 600 /\ nobs[s_min + 1] < 600
    /\ NoData_cnt = 1
    /\ VecIsNaN(etrparam_arr[1][t]) /\ VecIsNaN(mtrxparam_arr[1][t])
    /\ ~ VecHasNaN(etrparam_arr[0][t])
    /\ \E y \in YearIdx :
          /\ y # t
          /\ etrparam_arr[1][y] = ZeroVec
          /\ mtrxparam_arr[1][y] = ZeroVec

(* C23: the estimated marginal-rate surface has the functional form of    *)
(* the effective-rate surface: for the vector tried and for the vector as *)
(* stored, gen_mtrx_grid_est and gen_etr_grid give the same rate at every *)
(* pair of incomes.                                                       *)
C23_MtrxEstHasEtrForm ==
    /\ (etr_grid # << >> /\ mtrx_grid # << >>) => mtrx_grid = etr_grid
    /\ wsumsq_params # ZeroVec =>
          \A pair \in IncomePairs :
             gen_mtrx_grid_est(pair[1], pair[2], wsumsq_params)
                = gen_etr_grid(pair[1], pair[2], wsumsq_params)

(* Both surfaces have been evaluated on rows whose two incomes differ,    *)
(* for a vector whose rate bounds differ between the two incomes.         *)
C23_Witness ==
    /\ etr_grid # << >> /\ mtrx_grid # << >>
    /\ \E r \in 1 .. Len(df_trnc) :
          /\ df_trnc[r][1] # df_trnc[r][2]
          /\ ~ IsNaN(mtrx_grid[r])
    /\ wsumsq_params[7] # wsumsq_params[9]
    /\ wsumsq_params[8] # wsumsq_params[10]

(* Claim-side reading of a table of records *)
Retained(r) == -15 <= r.ETR /\ r.ETR <= 50 /\ r.ATI >= 5

RetainedRows == { i \in 1 .. Len(data) : Retained(data[i]) }

RECURSIVE SumOver(_, _)
SumOver(I, f) ==
    IF I = {} THEN 0
    ELSE LET i == CHOOSE x \in I : TRUE
         IN  f[i] + SumOver(I \ {i}, f)

FilterDone == data # << >> /\ pc # "start"

(* C24: after the filter of a year the records kept are exactly those     *)
(* with rate in [-0.15, 0.5] and adjusted total income at least 5, in     *)
(* their order; the range swept is [max(smallest kept age, s_min),        *)
(* min(largest kept age, s_max)]; the average income and the population   *)
(* of the year are those of all records of the table.                     *)
C24_FilterKeepsBoundariesAveragesAll ==
    FilterDone =>
      /\ Len(data_trnc) = Cardinality(RetainedRows)
      /\ \A k \in 1 .. Len(data_trnc) :
            \E i \in RetainedRows :
               /\ data_trnc[k] = data[i]
               /\ Cardinality({ j \in RetainedRows : j <= i }) = k
      /\ RetainedRows # {} =>
            /\ min_age = IntMax(SetMin({ data[i].Age : i \in RetainedRows }),
                                s_min)
            /\ max_age = IntMin(SetMax({ data[i].Age : i \in RetainedRows }),
                                s_max)
      /\ TotPop_yr[t] =
            SumOver(DOMAIN data, [i \in DOMAIN data |-> data[i].Weights])
      /\ AvgInc[t] =
            Rat(SumOver(DOMAIN data,
                        [i \in DOMAIN data |-> data[i].ATI * data[i].Weights]),
                SumOver(DOMAIN data, [i \in DOMAIN data |-> data[i].Weights]))

(* A table with a record on the upper rate boundary and a record the      *)
(* filter drops has been filtered: the boundary record alone is kept, the *)
(* range is its age, and the average income is not that of the kept       *)
(* record.                                                                *)
C24_Witness ==
    /\ FilterDone /\ pc = "ages"
    /\ \E i \in DOMAIN data : data[i].ETR = 50 /\ data[i].Age = 22
    /\ \E i \in DOMAIN data : ~ Retained(data[i])
    /\ Len(data_trnc) = 1
    /\ min_age = 22 /\ max_age = 22
    /\ AvgInc[t] # <<30, 1>>

(* The row the interpolation reads as its left endpoint, and its content  *)
(* once the fit of the age has been written                               *)
LeftRow == IF s - NoData_cnt - 22 = -1 THEN s_max - s_min
           ELSE s - NoData_cnt - 22

(* C25: the leading-gap branch is never taken, since its guard is         *)
(* (NoData_cnt > 0 and s = 21) and the counter is 0 whenever s = 21;      *)
(* every fitted age above 21 with a positive counter interpolates the     *)
(* NoData_cnt rows below it from the row s-NoData_cnt-22, which is the    *)
(* row of s_max when that index is -1, to the fresh fit.                  *)
C25_LeadingBranchDead ==
    [][ pc = "ages" =>
          /\ s = 21 => NoData_cnt = 0
          /\ nobs[s] >= 600 =>
                /\ ~ (NoData_cnt > 0 /\ s = 21)
                /\ (NoData_cnt > 0 /\ s > 21) =>
                      /\ s - NoData_cnt - 22 >= -1
                      /\ \A k \in 1 .. NoData_cnt :
                            /\ etrparam_arr'[s - NoData_cnt - 22 + k][t] =
                                 InterpPoint(
                                    IF LeftRow = s - s_min THEN etrparams'[s]
                                    ELSE etrparam_arr[LeftRow][t],
                                    etrparams'[s], k, NoData_cnt)
                            /\ mtrxparam_arr'[s - NoData_cnt - 22 + k][t] =
                                 InterpPoint(
                                    IF LeftRow = s - s_min THEN mtrxparams'[s]
                                    ELSE mtrxparam_arr[LeftRow][t],
                                    mtrxparams'[s], k, NoData_cnt)
      ]_vars

(* The range starts at 21 with an age without data, age 22 has been       *)
(* fitted below the top of the range, and age 21 holds the midpoint of    *)
(* the untouched row of s_max and the fit of age 22.                      *)
C25_Witness ==
    /\ pc = "ages" /\ s = 23
    /\ min_age = 21 /\ max_age > 22
    /\ nobs[21] < 600 /\ nobs[22] >= 600
    /\ NoData_cnt = 1
    /\ etrparam_arr[s_max - s_min][t] = ZeroVec
    /\ etrparam_arr[0][t] = VScale(<<1, 2>>, etrparams[22])
    /\ etrparam_arr[0][t] # etrparams[22]

(* C26: on the last age of the range, when it lacks data, the block of    *)
(* NoData_cnt rows is assigned to the rows from s-NoData_cnt-20 to the    *)
(* end, s_max - s + NoData_cnt of them (NoData_cnt counted after its      *)
(* increment).  The sweep completes only when NoData_cnt = 1 or           *)
(* max_age = s_max, and then those rows hold the row just below them;     *)
(* otherwise the run aborts and both arrays are as before the step.       *)
C26_TrailingWriteShape ==
    [][ (pc = "ages" /\ nobs[s] < 600 /\ s = max_age) =>
          LET cnt   == NoData_cnt'
              first == s - cnt - 20
              rows  == (s_max - s_min + 1) - first
          IN  /\ cnt = NoData_cnt + 1
              /\ first >= 0
              /\ rows = s_max - s + cnt
              /\ IF cnt = 1 \/ max_age = s_max
                 THEN /\ pc' = "swept"
                      /\ \A i \in first .. (s_max - s_min) :
                            /\ etrparam_arr'[i][t] =
                                  etrparam_arr[Idx(first - 1)][t]
                            /\ mtrxparam_arr'[i][t] =
                                  mtrxparam_arr[Idx(first - 1)][t]
                 ELSE /\ pc' = "error"
                      /\ etrparam_arr' = etrparam_arr
                      /\ mtrxparam_arr' = mtrxparam_arr
      ]_vars

(* A run has been aborted on a last age below s_max with two ages         *)
(* counted, the earlier one still holding the sentinel.                   *)
C26_Witness ==
    /\ pc = "error"
    /\ max_age < s_max /\ s = max_age
    /\ NoData_cnt = 2
    /\ \E a \in min_age .. (max_age - 1) : VecIsNaN(EtrCell(a))

(* C27: no step writes a result cell or a population share of the year    *)
(* at an age below the year's min_age: from the moment the range of the   *)
(* year is known those cells keep the zero they were created with.        *)
C27_NothingBelowMinAge ==
    pc # "start" =>
       \A a \in s_min .. (min_age - 1) :
          /\ etrparam_arr[a - s_min][t] = ZeroVec
          /\ mtrxparam_arr[a - s_min][t] = ZeroVec
          /\ PopPct_age[a - s_min][t] = Zero

(* A sweep whose range starts above s_min with an age without data has    *)
(* ended: that age has been filled from the fit above it, and the age     *)
(* below the range is still zero.                                         *)
C27_Witness ==
    /\ pc = "swept"
    /\ min_age = s_min + 1
    /\ nobs[min_age] < 600 /\ nobs[min_age + 1] >= 600
    /\ max_age >= min_age + 1
    /\ ~ VecHasNaN(EtrCell(min_age)) /\ EtrCell(min_age) # ZeroVec
    /\ EtrCell(s_min) = ZeroVec
    /\ PopPct_age[0][t] = Zero

(* The multiplier bucket sb of nS applies to the share of row k: the      *)
(* lower remainder on the first row of its slice, the upper remainder on  *)
(* the last, 1 between them and nothing outside the slice                 *)
FracWeight(nS, sb, k) ==
    LET lb == LowerCut(nS, sb)
        ub == UpperCut(nS, sb)
    IN  IF k < lb.yrcut \/ k > ub.yrcut THEN Zero
        ELSE RMul(IF k = lb.yrcut THEN lb.rmndr_pct ELSE One,
                  IF k = ub.yrcut THEN ub.rmndr_pct ELSE One)

RECURSIVE FracWeightSum(_, _, _)
FracWeightSum(nS, sb, k) ==
    IF sb < 0 THEN Zero
    ELSE RAdd(FracWeight(nS, sb, k), FracWeightSum(nS, sb - 1, k))

RECURSIVE BucketTotal(_, _, _, _)
BucketTotal(arrS, y, j, sb) ==
    IF sb < 0 THEN Zero
    ELSE RAdd(arrS[sb][y][j], BucketTotal(arrS, y, j, sb - 1))

InUnit(x) == x[2] > 0 /\ 0 <= x[1] /\ x[1] <= x[2]

(* C28: for S < ageCount the multipliers the S buckets apply to any one   *)
(* age lie in [0, 1] and sum to 1, and for every year and parameter the   *)
(* S bucket aggregates add up to the sum over all ages of share times     *)
(* value, for both targets.                                               *)
C28_BucketsPartitionTheAges ==
    (pc = "aggregated" /\ S < AgeCount) =>
        /\ \A k \in AgeIdx :
              /\ \A sb \in 0 .. (S - 1) : InUnit(FracWeight(S, sb, k))
              /\ FracWeightSum(S, S - 1, k) = One
        /\ \A y \in YearIdx, j \in Params :
              /\ BucketTotal(etrparam_arr_S, y, j, S - 1) =
                    ShareSum(etrparam_arr, y, j, 0, AgeCount - 1)
              /\ BucketTotal(mtrxparam_arr_S, y, j, S - 1) =
                    ShareSum(mtrxparam_arr, y, j, 0, AgeCount - 1)

(* Four fitted ages have been aggregated into three buckets, whose cuts   *)
(* fall inside ages, and the buckets of the year are not all equal.       *)
C28_Witness ==
    /\ pc = "aggregated"
    /\ AgeCount = 4 /\ S = 3
    /\ min_age = s_min /\ max_age = s_max
    /\ \A a \in Ages : Sufficient(a)
    /\ FracWeight(3, 0, 1) = <<1, 3>> /\ FracWeight(3, 1, 1) = <<2, 3>>
    /\ etrparam_arr_S[0][t] # etrparam_arr_S[1][t]
    /\ BucketTotal(etrparam_arr_S, t, 1, 2) # Zero

(* Bucket sb >= 1 of S starts at an integral cut point *)
IntegralCut(sb) == age_cuts(S)[sb][2] = 1

(* C29: when the cut point below bucket sb is integral, the slice of sb   *)
(* starts at the last age of bucket sb-1 with weight 0.  If the value of  *)
(* that age is ordinary, the aggregate of sb is the sum of share times    *)
(* value over the ages of sb's own interval; if it is the sentinel, the   *)
(* aggregate of sb is the sentinel as well.                               *)
C29_ZeroWeightRowPoisons ==
    (pc = "aggregated" /\ S < AgeCount) =>
        \A sb \in 1 .. (S - 1) :
           IntegralCut(sb) =>
              LET cut  == age_cuts(S)[sb][1]
                  prev == cut - 1
                  last == UpperCut(S, sb).yrcut
              IN  /\ LowerCut(S, sb).yrcut = prev
                  /\ UpperCut(S, sb - 1).yrcut = prev
                  /\ LowerCut(S, sb).rmndr_pct = Zero
                  /\ FracWeight(S, sb, prev) = Zero
                  /\ \A y \in YearIdx, j \in Params :
                        IF IsNaN(etrparam_arr[prev][y][j])
                        THEN IsNaN(etrparam_arr_S[sb][y][j])
                        ELSE etrparam_arr_S[sb][y][j] =
                                RAdd(ShareSum(etrparam_arr, y, j,
                                              cut, last - 1),
                                     RMul(RMul(PopPct_age[last][y],
                                               UpperCut(S, sb).rmndr_pct),
                                          etrparam_arr[last][y][j]))
                  /\ \A y \in YearIdx, j \in Params :
                        IF IsNaN(mtrxparam_arr[prev][y][j])
                        THEN IsNaN(mtrxparam_arr_S[sb][y][j])
                        ELSE mtrxparam_arr_S[sb][y][j] =
                                RAdd(ShareSum(mtrxparam_arr, y, j,
                                              cut, last - 1),
                                     RMul(RMul(PopPct_age[last][y],
                                               UpperCut(S, sb).rmndr_pct),
                                          mtrxparam_arr[last][y][j]))

(* Four ages in two buckets: the second age, the last of bucket 0, holds  *)
(* the sentinel, the two ages of bucket 1 hold ordinary values, and the   *)
(* aggregate of bucket 1 is the sentinel.                                 *)
C29_Witness ==
    /\ pc = "aggregated"
    /\ AgeCount = 4 /\ S = 2
    /\ VecIsNaN(etrparam_arr[1][0])
    /\ ~ VecHasNaN(etrparam_arr[2][0]) /\ ~ VecHasNaN(etrparam_arr[3][0])
    /\ PopPct_age[1][0] # Zero
    /\ VecIsNaN(etrparam_arr_S[1][0])
    /\ VecIsNaN(mtrxparam_arr_S[1][0])

(* Claim-side reading of a call of get_wealth_data *)
WealthDone == bin_weights # << >> /\ perc_array # << >>

Groups == DOMAIN bin_weights

Percent(j) == (bin_weights[j] * 100) \div 1000

RECURSIVE Cum(_)
Cum(j) == IF j < 0 THEN 0 ELSE Percent(j) + Cum(j - 1)

LastGroup == CHOOSE j \in Groups : \A i \in Groups : i <= j

(* C30: with c_j the cumulated integer percents, group 0 averages the     *)
(* columns 0 .. c_0 - 2 and every later group j the columns               *)
(* c_(j-1) - 1 .. c_j - 2; the ranges are disjoint, group 0 has one       *)
(* column fewer than its percent, every later group as many as its        *)
(* percent, and together they are the columns 0 .. c_(J-1) - 2.           *)
C30_GroupsTileTheColumns ==
    WealthDone =>
       /\ wealth_cols[0] = 0 .. (Cum(0) - 2)
       /\ Cardinality(wealth_cols[0]) = Percent(0) - 1
       /\ \A j \in Groups \ {0} :
             /\ wealth_cols[j] = (Cum(j - 1) - 1) .. (Cum(j) - 2)
             /\ Cardinality(wealth_cols[j]) = Percent(j)
       /\ \A i, j \in Groups :
             i # j => wealth_cols[i] \cap wealth_cols[j] = {}
       /\ UNION { wealth_cols[j] : j \in Groups } = 0 .. (Cum(LastGroup) - 2)

====
